---- MODULE Spec2Model ----
(***************************************************************************)
(* State-machine model of the MCP stdio client (app/agent.py, MCPClient),   *)
(* of the keyword router process_user_query that drives it, of the         *)
(* calculator tool and of the product catalog of mcp_server/mcp_server.py. *)
(*                                                                         *)
(* Text is modelled as Python models it: a str is a sequence of Unicode    *)
(* code points, so "id" is <<105, 100>>.  Every literal of the source is   *)
(* written out as its code points, with the literal in a comment.          *)
(***************************************************************************)
EXTENDS Integers, Sequences, FiniteSets, TLC

VARIABLES
    request_id,   \* MCPClient.request_id
    stdin,        \* every request frame written to process.stdin so far
    sent,         \* the frames written by the last operation
    read,         \* the response lines the last operation read from process.stdout
    query,        \* the query handed to process_user_query
    mcp_client,   \* whether process_user_query is given a client (None otherwise)
    op,           \* the last operation that ran
    outcome,      \* how the last call_tool ended: a returned value or a raised exception
    branch,       \* the rule of process_user_query that the last query took
    response,     \* the text process_user_query returned
    last_raise,   \* history: the id of the latest request whose call_tool raised, 0 if none
    calc_input,   \* the expression handed to calculator
    calculated,   \* how the last calculator call ended: returned text or an exception
    products_data,    \* mcp_server.products_data, the catalog in memory
    products_file,    \* the content of PRODUCTS_FILE
    served,       \* how the last tool of the server ended: its result or its exception
    added,        \* history: the products add_product returned, in order
    baseline,     \* history: the number of products in the catalog at start
    pc,           \* per caller: the statement of call_tool it is at, "idle" outside a call
    id_read,      \* per caller: the value of self.request_id it read for `+= 1`
    request,      \* per caller: the request dict it built
    returned,     \* per caller: how its latest call_tool ended and the line it read
    call,         \* history, per caller: the number of its latest call, in order of start
    began,        \* history: the number of call_tool invocations started
    to_provider,  \* the frames on process.stdin the provider has not consumed yet
    from_provider,    \* the lines on process.stdout no caller has read yet
    hung,         \* whether the provider has stopped answering
    closed,       \* whether the provider has closed its stdout
    overlapped    \* history: whether a call ever started while another was in progress

clientVars == <<request_id, stdin, sent, read, query, mcp_client, outcome, branch, response,
                last_raise>>
calcVars == <<calc_input, calculated>>

catalogVars == <<products_data, products_file, served, added, baseline>>

threadVars == <<pc, id_read, request, returned, call, began, to_provider, from_provider,
                hung, closed, overlapped>>

vars == <<op, clientVars, calcVars, catalogVars, threadVars>>

\* Number of call_tool invocations explored on one client.
MaxCalls == 2

\* Number of words of a generated query.
MaxWords == 3

\* Number of words of a generated calculator expression.
MaxTerms == 3

\* Number of add_product calls explored on one catalog.
MaxAdds == 2

-----------------------------------------------------------------------------
(* Python str operations, on sequences of code points.                     *)

\* str.lower() of one code point: A-Z, the Cyrillic capitals (U+0410..U+042F)
\* and U+0400..U+040F; every other code point of the model's alphabet is
\* its own lower case.
LowerChar(c) ==
    IF c \in 65..90 THEN c + 32
    ELSE IF c \in 1040..1071 THEN c + 32
    ELSE IF c \in 1024..1039 THEN c + 80
    ELSE c

Lower(text) == [i \in 1..Len(text) |-> LowerChar(text[i])]

\* pat in text
Contains(text, pat) ==
    \E i \in 0..(Len(text) - Len(pat)) : \A j \in 1..Len(pat) : text[i + j] = pat[j]

StartsWith(text, pat) ==
    Len(pat) <= Len(text) /\ \A j \in 1..Len(pat) : text[j] = pat[j]

\* The code points str.split() treats as separators.
Whitespace == {9, 10, 11, 12, 13, 28, 29, 30, 31, 32, 133, 160}

RECURSIVE SplitFrom(_, _, _, _)
SplitFrom(text, i, cur, acc) ==
    IF i > Len(text)
    THEN IF cur = <<>> THEN acc ELSE Append(acc, cur)
    ELSE IF text[i] \in Whitespace
         THEN SplitFrom(text, i + 1, <<>>, IF cur = <<>> THEN acc ELSE Append(acc, cur))
         ELSE SplitFrom(text, i + 1, Append(cur, text[i]), acc)

\* text.split(): the maximal runs of non-whitespace, in order.
Split(text) == SplitFrom(text, 1, <<>>, <<>>)

RECURSIVE JoinFrom(_, _, _)
JoinFrom(sep, parts, i) ==
    IF i > Len(parts) THEN <<>>
    ELSE IF i = Len(parts) THEN parts[i]
    ELSE parts[i] \o sep \o JoinFrom(sep, parts, i + 1)

\* sep.join(parts)
Join(sep, parts) == JoinFrom(sep, parts, 1)

Digits == 48..57

\* The digits-and-underscores body int() accepts: digits, with single
\* underscores only between digits.
IsIntBody(w) ==
    /\ Len(w) > 0
    /\ \A i \in 1..Len(w) : w[i] \in Digits \/ w[i] = 95
    /\ w[1] \in Digits /\ w[Len(w)] \in Digits
    /\ \A i \in 1..(Len(w) - 1) : ~(w[i] = 95 /\ w[i + 1] = 95)

HasSign(w) == Len(w) > 0 /\ w[1] \in {43, 45}

\* Whether int(w) returns rather than raising ValueError (w is a word of
\* split(), so it carries no whitespace).
IsInt(w) == IsIntBody(IF HasSign(w) THEN Tail(w) ELSE w)

RECURSIVE BodyValue(_, _, _)
BodyValue(w, i, acc) ==
    IF i > Len(w) THEN acc
    ELSE IF w[i] = 95 THEN BodyValue(w, i + 1, acc)
    ELSE BodyValue(w, i + 1, 10 * acc + (w[i] - 48))

\* int(w), for a w that parses.
IntValue(w) ==
    IF HasSign(w)
    THEN (IF w[1] = 45 THEN -1 ELSE 1) * BodyValue(Tail(w), 1, 0)
    ELSE BodyValue(w, 1, 0)

RECURSIVE NatToText(_)
NatToText(n) ==
    IF n < 10 THEN <<48 + n>> ELSE NatToText(n \div 10) \o <<48 + (n % 10)>>

\* str(n) of an int.
IntToText(n) == IF n < 0 THEN <<45>> \o NatToText(-n) ELSE NatToText(n)

-----------------------------------------------------------------------------
(* The Python objects json.loads produces and json.dumps consumes.  A      *)
(* dict is its items in insertion order.                                   *)

JNull == [t |-> "null"]
JBool(b) == [t |-> "bool", b |-> b]
JInt(n) == [t |-> "int", n |-> n]
JStr(s) == [t |-> "str", s |-> s]
JList(xs) == [t |-> "list", xs |-> xs]
JDict(items) == [t |-> "dict", items |-> items]
Item(k, v) == [k |-> k, v |-> v]

RECURSIVE EscapeFrom(_, _, _)
EscapeFrom(s, i, quote) ==
    IF i > Len(s) THEN <<>>
    ELSE (IF s[i] = quote \/ s[i] = 92 THEN <<92, s[i]>>
          ELSE IF s[i] = 10 THEN <<92, 110>>
          ELSE <<s[i]>>) \o EscapeFrom(s, i + 1, quote)

\* json.dumps of a str with ensure_ascii=False: double quotes, with the
\* quote, the backslash and the newline escaped.
DumpsStr(s) == <<34>> \o EscapeFrom(s, 1, 34) \o <<34>>

RECURSIVE Dumps(_)
RECURSIVE DumpsList(_, _)
RECURSIVE DumpsItems(_, _)

\* json.dumps(v, ensure_ascii=False)
Dumps(v) ==
    CASE v.t = "null" -> <<110, 117, 108, 108>>
      [] v.t = "bool" -> (IF v.b THEN <<116, 114, 117, 101>> ELSE <<102, 97, 108, 115, 101>>)
      [] v.t = "int"  -> IntToText(v.n)
      [] v.t = "str"  -> DumpsStr(v.s)
      [] v.t = "list" -> <<91>> \o DumpsList(v.xs, 1) \o <<93>>
      [] v.t = "dict" -> <<123>> \o DumpsItems(v.items, 1) \o <<125>>

DumpsList(xs, i) ==
    IF i > Len(xs) THEN <<>>
    ELSE Dumps(xs[i]) \o (IF i < Len(xs) THEN <<44, 32>> ELSE <<>>) \o DumpsList(xs, i + 1)

DumpsItems(items, i) ==
    IF i > Len(items) THEN <<>>
    ELSE DumpsStr(items[i].k) \o <<58, 32>> \o Dumps(items[i].v)
         \o (IF i < Len(items) THEN <<44, 32>> ELSE <<>>) \o DumpsItems(items, i + 1)

\* repr(s) of a str: single quotes, unless s holds a single quote and no
\* double quote.
ReprStr(s) ==
    LET quote == IF Contains(s, <<39>>) /\ ~Contains(s, <<34>>) THEN 34 ELSE 39
    IN  <<quote>> \o EscapeFrom(s, 1, quote) \o <<quote>>

RECURSIVE Repr(_)
RECURSIVE ReprList(_, _)
RECURSIVE ReprItems(_, _)

\* repr(v)
Repr(v) ==
    CASE v.t = "null" -> <<78, 111, 110, 101>>
      [] v.t = "bool" -> (IF v.b THEN <<84, 114, 117, 101>> ELSE <<70, 97, 108, 115, 101>>)
      [] v.t = "int"  -> IntToText(v.n)
      [] v.t = "str"  -> ReprStr(v.s)
      [] v.t = "list" -> <<91>> \o ReprList(v.xs, 1) \o <<93>>
      [] v.t = "dict" -> <<123>> \o ReprItems(v.items, 1) \o <<125>>

ReprList(xs, i) ==
    IF i > Len(xs) THEN <<>>
    ELSE Repr(xs[i]) \o (IF i < Len(xs) THEN <<44, 32>> ELSE <<>>) \o ReprList(xs, i + 1)

ReprItems(items, i) ==
    IF i > Len(items) THEN <<>>
    ELSE ReprStr(items[i].k) \o <<58, 32>> \o Repr(items[i].v)
         \o (IF i < Len(items) THEN <<44, 32>> ELSE <<>>) \o ReprItems(items, i + 1)

\* str(v), which an f-string applies: a str is itself, anything else its repr.
Str(v) == IF v.t = "str" THEN v.s ELSE Repr(v)

-----------------------------------------------------------------------------
(* MCPClient: the request frames it writes and the response lines it reads *)

\* key in d, d[key] of a decoded JSON object
HasKey(d, key) == \E i \in 1..Len(d.items) : d.items[i].k = key
GetKey(d, key) ==
    d.items[CHOOSE i \in 1..Len(d.items) :
                /\ d.items[i].k = key
                /\ \A j \in (i + 1)..Len(d.items) : d.items[j].k # key].v

\* The tool calls a caller of call_tool makes: the four the router can issue.
NoArgs == JDict(<<>>)
CategoryArgs(category) == JDict(<<Item(<<99, 97, 116, 101, 103, 111, 114, 121>>, JStr(category))>>)
ProductIdArgs(product_id) == JDict(<<Item(<<112, 114, 111, 100, 117, 99, 116, 95, 105, 100>>, JInt(product_id))>>)

\* The request object of call_tool, one frame on stdin.
Request(id, tool_name, args) ==
    [jsonrpc |-> "2.0", id |-> id, method |-> "tools/call",
     params |-> [name |-> tool_name, arguments |-> args]]

\* What the provider may have put on stdout: nothing (end of stream), a
\* blank line, a line json.loads rejects, a line that decodes to a bare
\* number, or a line that decodes to an object.
EofLine == [kind |-> "eof"]
BlankLine == [kind |-> "blank"]
MalformedLine == [kind |-> "malformed"]
ScalarLine == [kind |-> "scalar"]
ObjectLine(body) == [kind |-> "object", body |-> body]

\* "Product with ID 1 not found", the message of get_product's ValueError
NotFoundMessage == <<80, 114, 111, 100, 117, 99, 116, 32, 119, 105, 116, 104, 32, 73, 68, 32, 49, 32, 110, 111, 116, 32, 102, 111, 117, 110, 100>>

\* {"products": [], "total": 0}, list_products on an empty catalog
EmptyListing ==
    JDict(<<Item(<<112, 114, 111, 100, 117, 99, 116, 115>>, JList(<<>>)), Item(<<116, 111, 116, 97, 108>>, JInt(0))>>)

ResultValues == {EmptyListing, JNull}

\* The provider's error member: the message itself, or an object carrying it.
ErrorValues ==
    {JStr(NotFoundMessage),
     JDict(<<Item(<<99, 111, 100, 101>>, JInt(-32000)), Item(<<109, 101, 115, 115, 97, 103, 101>>, JStr(NotFoundMessage))>>)}

IdItem(id) == Item(<<105, 100>>, JInt(id))
ResultItem(v) == Item(<<114, 101, 115, 117, 108, 116>>, v)
ErrorItem(e) == Item(<<101, 114, 114, 111, 114>>, e)

\* The response lines explored for a request with the given id: answers
\* that echo the id, answers that carry another id or none, and the
\* stream failures.
Lines(id) ==
    {EofLine, BlankLine, MalformedLine, ScalarLine}
    \cup {ObjectLine(JDict(<<IdItem(i), ResultItem(v)>>)) : i \in {id, id + 1}, v \in ResultValues}
    \cup {ObjectLine(JDict(<<IdItem(i), ErrorItem(e)>>)) : i \in {id, id + 1}, e \in ErrorValues}
    \cup {ObjectLine(JDict(<<IdItem(id), ResultItem(EmptyListing), ErrorItem(JStr(NotFoundMessage))>>)),
          ObjectLine(JDict(<<IdItem(id)>>)),
          ObjectLine(JDict(<<ResultItem(EmptyListing)>>))}

\* The lines explored under the router, which tells a returned value from
\* a raised exception and renders one or the other.
RouterLines(id) ==
    {EofLine, MalformedLine,
     ObjectLine(JDict(<<IdItem(id), ResultItem(EmptyListing)>>))}
    \cup {ObjectLine(JDict(<<IdItem(id), ErrorItem(e)>>)) : e \in ErrorValues}

Return(value) == [kind |-> "return", value |-> value]
Raise(message) == [kind |-> "raise", message |-> message]

\* str(e) of the JSONDecodeError json.loads raises on the malformed line
JSONDecodeErrorMessage == <<69, 120, 112, 101, 99, 116, 105, 110, 103, 32, 118, 97, 108, 117, 101, 58, 32, 108, 105, 110, 101, 32, 49, 32, 99, 111, 108, 117, 109, 110, 32, 49, 32, 40, 99, 104, 97, 114, 32, 48, 41>>
\* str(e) of the TypeError of `"result" in response` on a decoded number
TypeErrorMessage == <<97, 114, 103, 117, 109, 101, 110, 116, 32, 111, 102, 32, 116, 121, 112, 101, 32, 39, 105, 110, 116, 39, 32, 105, 115, 32, 110, 111, 116, 32, 105, 116, 101, 114, 97, 98, 108, 101>>

\* The id call_tool stamps on its request: the counter after its increment.
NextRequestIdReused(request_id_before) == request_id_before
NextRequestId(request_id_before) == request_id_before + 1

ReadResponseNoPrefix(line) ==
    IF line.kind \in {"eof", "blank"} THEN Return(JNull)
    ELSE IF line.kind = "malformed" THEN Raise(JSONDecodeErrorMessage)
    ELSE IF line.kind = "scalar" THEN Raise(TypeErrorMessage)
    ELSE IF HasKey(line.body, <<114, 101, 115, 117, 108, 116>>) THEN Return(GetKey(line.body, <<114, 101, 115, 117, 108, 116>>))
    ELSE IF HasKey(line.body, <<101, 114, 114, 111, 114>>)
         THEN Raise(Str(GetKey(line.body, <<101, 114, 114, 111, 114>>)))
    ELSE Return(JNull)

\* call_tool from the read of the response line on: what it returns or raises.
ReadResponse(line) ==
    IF line.kind \in {"eof", "blank"} THEN Return(JNull)
    ELSE IF line.kind = "malformed" THEN Raise(JSONDecodeErrorMessage)
    ELSE IF line.kind = "scalar" THEN Raise(TypeErrorMessage)
    ELSE IF HasKey(line.body, <<114, 101, 115, 117, 108, 116>>) THEN Return(GetKey(line.body, <<114, 101, 115, 117, 108, 116>>))
    ELSE IF HasKey(line.body, <<101, 114, 114, 111, 114>>)
         THEN Raise(<<77, 67, 80, 32, 69, 114, 114, 111, 114, 58, 32>> \o Str(GetKey(line.body, <<101, 114, 114, 111, 114>>)))
    ELSE Return(JNull)

\* One call_tool: the counter after it, the frame it wrote and its outcome.
call_tool(request_id_before, tool_name, args, line) ==
    LET id == NextRequestId(request_id_before)
    IN  [request_id |-> id,
         frame |-> Request(id, tool_name, args),
         outcome |-> ReadResponse(line)]

-----------------------------------------------------------------------------
(* calculator.  Numbers are kept in hundredths: the int n is 100 * n, and  *)
(* a float is the hundredths of its value.  Every product and quotient of  *)
(* the operands the model feeds in is a whole number of hundredths, and    *)
(* every such float prints as that decimal.                                *)

RECURSIVE SplitOnFrom(_, _, _, _, _)
SplitOnFrom(text, sep, i, cur, acc) ==
    IF i > Len(text) THEN Append(acc, cur)
    ELSE IF i + Len(sep) - 1 <= Len(text) /\ SubSeq(text, i, i + Len(sep) - 1) = sep
         THEN SplitOnFrom(text, sep, i + Len(sep), <<>>, Append(acc, cur))
         ELSE SplitOnFrom(text, sep, i + 1, Append(cur, text[i]), acc)

\* text.split(sep)
SplitOn(text, sep) == SplitOnFrom(text, sep, 1, <<>>, <<>>)

RECURSIVE Strip(_)
\* text.strip()
Strip(text) ==
    IF text = <<>> THEN text
    ELSE IF text[1] \in Whitespace THEN Strip(Tail(text))
    ELSE IF text[Len(text)] \in Whitespace THEN Strip(SubSeq(text, 1, Len(text) - 1))
    ELSE text

\* text.replace("%", "")
DropPercent(text) == SelectSeq(text, LAMBDA c : c # 37)

\* str(x) of the float x = hundredths / 100
FloatText(hundredths) ==
    LET a == IF hundredths < 0 THEN -hundredths ELSE hundredths
        whole == NatToText(a \div 100)
        frac == IF a % 100 = 0 THEN <<48>>
                ELSE IF a % 10 = 0 THEN <<48 + ((a % 100) \div 10)>>
                ELSE <<48 + ((a % 100) \div 10), 48 + (a % 10)>>
    IN  (IF hundredths < 0 THEN <<45>> ELSE <<>>) \o whole \o <<46>> \o frac

\* str(e) of the ValueError float(s) raises
FloatErrorMessage(s) == <<99, 111, 117, 108, 100, 32, 110, 111, 116, 32, 99, 111, 110, 118, 101, 114, 116, 32, 115, 116, 114, 105, 110, 103, 32, 116, 111, 32, 102, 108, 111, 97, 116, 58, 32>> \o ReprStr(s)

\* How evaluating an expression ends: with a number, with an exception
\* that `except Exception` catches (str(e) is its text), or with
\* SystemExit, which is no Exception.
Number(float, h) == [k |-> "number", float |-> float, h |-> h]
Caught(text) == [k |-> "exception", text |-> text]
SystemExit == [k |-> "system_exit"]

\* str(e) of the SyntaxError eval raises on text that is no expression
SyntaxErrorMessage == <<105, 110, 118, 97, 108, 105, 100, 32, 115, 121, 110, 116, 97, 120, 32, 40, 60, 115, 116, 114, 105, 110, 103, 62, 44, 32, 108, 105, 110, 101, 32, 49, 41>>
NameErrorMessage(name) == <<110, 97, 109, 101, 32, 39>> \o name \o <<39, 32, 105, 115, 32, 110, 111, 116, 32, 100, 101, 102, 105, 110, 101, 100>>

\* The tokens of an expression: integer literals, names and the
\* one-character operators and parentheses.
Letters == (65..90) \cup (97..122) \cup {95}
Operators == {43, 45, 42, 47, 37, 40, 41}

RECURSIVE RunEnd(_, _, _)
\* The last position of the run of code points of `class` that starts at i.
RunEnd(text, i, class) ==
    IF i < Len(text) /\ text[i + 1] \in class THEN RunEnd(text, i + 1, class) ELSE i

RECURSIVE Tokens(_, _, _)
Tokens(text, i, acc) ==
    IF i > Len(text) THEN acc
    ELSE IF text[i] \in Whitespace THEN Tokens(text, i + 1, acc)
    ELSE IF text[i] \in Digits
    THEN LET e == RunEnd(text, i, Digits)
         IN  Tokens(text, e + 1,
                    Append(acc, [k |-> "num", text |-> SubSeq(text, i, e)]))
    ELSE IF text[i] \in Letters
    THEN LET e == RunEnd(text, i, Letters \cup Digits)
         IN  Tokens(text, e + 1,
                    Append(acc, [k |-> "name", text |-> SubSeq(text, i, e)]))
    ELSE IF text[i] \in Operators
    THEN Tokens(text, i + 1, Append(acc, [k |-> "op", text |-> <<text[i]>>]))
    ELSE Append(acc, [k |-> "bad", text |-> <<text[i]>>])

IsOp(toks, p, chars) == p <= Len(toks) /\ toks[p].k = "op" /\ toks[p].text[1] \in chars

\* The parser: each function takes the tokens and a position and gives the
\* tree it read and the position after it, or ok = FALSE.
NoParse == [ok |-> FALSE]
Parsed(tree, p) == [ok |-> TRUE, tree |-> tree, p |-> p]

RECURSIVE ParseSum(_, _), ParseSumRest(_, _), ParseTerm(_, _), ParseTermRest(_, _),
          ParseFactor(_, _), ParseAtom(_, _)

\* atom: NUMBER | NAME | NAME "(" ")" | "(" sum ")"
ParseAtom(toks, p) ==
    IF p > Len(toks) THEN NoParse
    ELSE IF toks[p].k = "num" THEN Parsed([n |-> "num", text |-> toks[p].text], p + 1)
    ELSE IF toks[p].k = "name"
    THEN IF IsOp(toks, p + 1, {40}) /\ IsOp(toks, p + 2, {41})
         THEN Parsed([n |-> "call", text |-> toks[p].text], p + 3)
         ELSE Parsed([n |-> "name", text |-> toks[p].text], p + 1)
    ELSE IF IsOp(toks, p, {40})
    THEN LET inner == ParseSum(toks, p + 1)
         IN  IF inner.ok /\ IsOp(toks, inner.p, {41})
             THEN Parsed(inner.tree, inner.p + 1)
             ELSE NoParse
    ELSE NoParse

\* factor: ("+" | "-") factor | atom
ParseFactor(toks, p) ==
    IF IsOp(toks, p, {43, 45})
    THEN LET operand == ParseFactor(toks, p + 1)
         IN  IF operand.ok
             THEN Parsed([n |-> "unary", op |-> toks[p].text[1], a |-> operand.tree],
                         operand.p)
             ELSE NoParse
    ELSE ParseAtom(toks, p)

\* term: factor (("*" | "/" | "%") factor)*
ParseTermRest(toks, left) ==
    IF IsOp(toks, left.p, {42, 47, 37})
    THEN LET right == ParseFactor(toks, left.p + 1)
         IN  IF right.ok
             THEN ParseTermRest(toks,
                      Parsed([n |-> "binary", op |-> toks[left.p].text[1],
                              a |-> left.tree, b |-> right.tree], right.p))
             ELSE NoParse
    ELSE left

ParseTerm(toks, p) ==
    LET first == ParseFactor(toks, p)
    IN  IF first.ok THEN ParseTermRest(toks, first) ELSE NoParse

\* sum: term (("+" | "-") term)*
ParseSumRest(toks, left) ==
    IF IsOp(toks, left.p, {43, 45})
    THEN LET right == ParseTerm(toks, left.p + 1)
         IN  IF right.ok
             THEN ParseSumRest(toks,
                      Parsed([n |-> "binary", op |-> toks[left.p].text[1],
                              a |-> left.tree, b |-> right.tree], right.p))
             ELSE NoParse
    ELSE left

ParseSum(toks, p) ==
    LET first == ParseTerm(toks, p)
    IN  IF first.ok THEN ParseSumRest(toks, first) ELSE NoParse

\* a op b on two numbers: int op int is an int except for "/", which is
\* always a float; a zero divisor raises ZeroDivisionError.
Apply(operator, a, b) ==
    LET float == a.float \/ b.float
    IN  CASE operator = 43 -> Number(float, a.h + b.h)
          [] operator = 45 -> Number(float, a.h - b.h)
          [] operator = 42 -> Number(float, (a.h * b.h) \div 100)
          [] operator = 47 ->
                IF b.h = 0
                THEN Caught(IF float THEN <<102, 108, 111, 97, 116, 32, 100, 105, 118, 105, 115, 105, 111, 110, 32, 98, 121, 32, 122, 101, 114, 111>>
                            ELSE <<100, 105, 118, 105, 115, 105, 111, 110, 32, 98, 121, 32, 122, 101, 114, 111>>)
                ELSE Number(TRUE, (100 * a.h) \div b.h)
          [] OTHER ->
                IF b.h = 0
                THEN Caught(IF float THEN <<102, 108, 111, 97, 116, 32, 109, 111, 100, 117, 108, 111>>
                            ELSE <<105, 110, 116, 101, 103, 101, 114, 32, 109, 111, 100, 117, 108, 111, 32, 98, 121, 32, 122, 101, 114, 111>>)
                ELSE Number(float, a.h % b.h)

RECURSIVE Evaluate(_)
\* The value of a tree, its operands evaluated left to right.  The only
\* bound name is the builtin exit, and calling it raises SystemExit.
Evaluate(tree) ==
    CASE tree.n = "num" -> Number(FALSE, 100 * BodyValue(tree.text, 1, 0))
      [] tree.n = "name" -> Caught(NameErrorMessage(tree.text))
      [] tree.n = "call" ->
            IF tree.text = <<101, 120, 105, 116>> THEN SystemExit
            ELSE Caught(NameErrorMessage(tree.text))
      [] tree.n = "unary" ->
            LET a == Evaluate(tree.a)
            IN  IF a.k # "number" THEN a
                ELSE IF tree.op = 45 THEN Number(a.float, -a.h) ELSE a
      [] OTHER ->
            LET a == Evaluate(tree.a)
            IN  IF a.k # "number" THEN a
                ELSE LET b == Evaluate(tree.b)
                     IN  IF b.k # "number" THEN b ELSE Apply(tree.op, a, b)

\* eval(expression): nothing is evaluated unless the whole text parses;
\* text that holds no token is a SyntaxError at line 0.
Eval(expression) ==
    LET toks == Tokens(expression, 1, <<>>)
        parse == ParseSum(toks, 1)
    IN  IF toks = <<>> THEN Caught(<<105, 110, 118, 97, 108, 105, 100, 32, 115, 121, 110, 116, 97, 120, 32, 40, 60, 115, 116, 114, 105, 110, 103, 62, 44, 32, 108, 105, 110, 101, 32, 48, 41>>)
        ELSE IF parse.ok /\ parse.p = Len(toks) + 1 THEN Evaluate(parse.tree)
        ELSE Caught(SyntaxErrorMessage)

\* str(x) of a number
NumberText(x) == IF x.float THEN FloatText(x.h) ELSE IntToText(x.h \div 100)

\* calculator(expression): the text it returns, or the exception that
\* leaves it: the SystemExit(None) of exit(), which `except Exception`
\* does not catch.
calculator(expression) ==
    LET parts == SplitOn(expression, <<32, 111, 102, 32>>)
    IN  IF Contains(expression, <<37>>) /\ Len(parts) = 2
        THEN LET percent_str == Strip(DropPercent(Strip(parts[1])))
                 amount_str == Strip(parts[2])
             IN  IF ~IsInt(percent_str)
                 THEN Return(<<69, 114, 114, 111, 114, 32, 99, 97, 108, 99, 117, 108, 97, 116, 105, 110, 103, 58, 32>> \o FloatErrorMessage(percent_str))
                 ELSE IF ~IsInt(amount_str)
                 THEN Return(<<69, 114, 114, 111, 114, 32, 99, 97, 108, 99, 117, 108, 97, 116, 105, 110, 103, 58, 32>> \o FloatErrorMessage(amount_str))
                 ELSE Return(FloatText(100 * IntValue(percent_str)) \o <<37, 32, 111, 102, 32>>
                             \o FloatText(100 * IntValue(amount_str)) \o <<32, 61, 32>>
                             \o FloatText(IntValue(percent_str) * IntValue(amount_str)))
        ELSE LET result == Eval(expression)
             IN  CASE result.k = "number" ->
                        Return(expression \o <<32, 61, 32>> \o NumberText(result))
                   [] result.k = "exception" ->
                        Return(<<69, 114, 114, 111, 114, 32, 99, 97, 108, 99, 117, 108, 97, 116, 105, 110, 103, 58, 32>> \o result.text)
                   [] OTHER -> Raise(<<78, 111, 110, 101>>)

-----------------------------------------------------------------------------
(* process_user_query                                                      *)

\* The first rule of the if/elif chain whose keywords the lower-cased query
\* contains.
ListAllMatches(query_lower) ==
    \/ Contains(query_lower, <<1089, 1087, 1080, 1089, 1086, 1082>>)
    \/ Contains(query_lower, <<1074, 1089, 1077, 32, 1087, 1088, 1086, 1076, 1091, 1082, 1090, 1099>>)
    \/ Contains(query_lower, <<115, 104, 111, 119, 32, 112, 114, 111, 100, 117, 99, 116, 115>>)

CategoryMatches(query_lower) ==
    \/ Contains(query_lower, <<1082, 1072, 1090, 1077, 1075, 1086, 1088, 1080, 1103>>)
    \/ Contains(query_lower, <<99, 97, 116, 101, 103, 111, 114, 121>>)
    \/ Contains(query_lower, <<1101, 1083, 1077, 1082, 1090, 1088, 1086, 1085, 1080, 1082, 1072>>)

StatisticsMatches(query_lower) ==
    \/ Contains(query_lower, <<1089, 1090, 1072, 1090, 1080, 1089, 1090, 1080, 1082, 1072>>)
    \/ Contains(query_lower, <<115, 116, 97, 116, 105, 115, 116, 105, 99, 115>>)
    \/ Contains(query_lower, <<1089, 1088, 1077, 1076, 1085, 1103, 1103, 32, 1094, 1077, 1085, 1072>>)

ProductMatches(query_lower) ==
    \/ Contains(query_lower, <<112, 114, 111, 100, 117, 99, 116>>)
    \/ Contains(query_lower, <<1090, 1086, 1074, 1072, 1088>>)
    \/ Contains(query_lower, <<105, 100>>)

AddMatches(query_lower) ==
    \/ Contains(query_lower, <<1076, 1086, 1073, 1072, 1074, 1100>>)
    \/ Contains(query_lower, <<97, 100, 100, 32, 112, 114, 111, 100, 117, 99, 116>>)
    \/ Contains(query_lower, <<1085, 1086, 1074, 1099, 1081>>)

DiscountMatches(query_lower) ==
    \/ Contains(query_lower, <<37>>)
    \/ Contains(query_lower, <<1089, 1082, 1080, 1076, 1082, 1072>>)
    \/ Contains(query_lower, <<100, 105, 115, 99, 111, 117, 110, 116>>)

RuleCategoryFirst(query_lower) ==
    IF CategoryMatches(query_lower) THEN "category"
    ELSE IF ListAllMatches(query_lower) THEN "list_all"
    ELSE IF StatisticsMatches(query_lower) THEN "statistics"
    ELSE IF ProductMatches(query_lower) THEN "product"
    ELSE IF AddMatches(query_lower) THEN "add"
    ELSE IF DiscountMatches(query_lower) THEN "discount"
    ELSE "default"

Rule(query_lower) ==
    IF ListAllMatches(query_lower) THEN "list_all"
    ELSE IF CategoryMatches(query_lower) THEN "category"
    ELSE IF StatisticsMatches(query_lower) THEN "statistics"
    ELSE IF ProductMatches(query_lower) THEN "product"
    ELSE IF AddMatches(query_lower) THEN "add"
    ELSE IF DiscountMatches(query_lower) THEN "discount"
    ELSE "default"

\* category = "Электроника"
DefaultCategory == <<1069, 1083, 1077, 1082, 1090, 1088, 1086, 1085, 1080, 1082, 1072>>

\* {"products": []} and {}, the results used when no client is given
NoClientListing == JDict(<<Item(<<112, 114, 111, 100, 117, 99, 116, 115>>, JList(<<>>))>>)
NoClientResult == JDict(<<>>)

\* The expression the discount branch hands to calculator.
DiscountExpression == <<49, 53, 37, 32, 111, 102, 32, 53, 48, 48, 48, 48>>

AddPrompt ==
    <<84, 111, 32, 97, 100, 100, 32, 97, 32, 112, 114, 111, 100, 117, 99, 116, 44, 32, 112, 108, 101, 97, 115, 101, 32, 112, 114, 111, 118, 105, 100, 101, 58, 32, 110, 97, 109, 101, 44, 32, 112, 114, 105, 99, 101, 44, 32, 99, 97, 116, 101, 103, 111, 114, 121, 44, 32, 97, 110, 100, 32, 105, 110, 95, 115, 116, 111, 99, 107, 32, 115, 116, 97, 116, 117, 115, 46>>
DefaultPrompt == <<72, 111, 119, 32, 99, 97, 110, 32, 73, 32, 104, 101, 108, 112, 32, 121, 111, 117, 32, 119, 105, 116, 104, 32, 112, 114, 111, 100, 117, 99, 116, 32, 109, 97, 110, 97, 103, 101, 109, 101, 110, 116, 63>>

\* The running state of one process_user_query: the client's counter, the
\* frames written, the number of lines read and response_parts.
Start(request_id_before) ==
    [request_id |-> request_id_before, frames |-> <<>>, nread |-> 0, parts |-> <<>>]

\* The line the next readline() returns: end of stream once the provider's
\* lines are used up.
NextLine(st, lines) == IF st.nread < Len(lines) THEN lines[st.nread + 1] ELSE EofLine

\* `mcp_client.call_tool(tool_name, args) if mcp_client else default`: the
\* state after it, with the outcome of the expression.
CallOrDefault(st, client, tool_name, args, default, lines) ==
    IF client
    THEN LET c == call_tool(st.request_id, tool_name, args, NextLine(st, lines))
         IN  [st |-> [st EXCEPT !.request_id = c.request_id,
                                !.frames = Append(@, c.frame),
                                !.nread = @ + 1],
              outcome |-> c.outcome]
    ELSE [st |-> st, outcome |-> Return(default)]

\* A branch that makes one call inside the outer try: the result is
\* rendered after the prefix, an exception as "Error: " and its text.
OneCall(st, client, tool_name, args, default, prefix, lines) ==
    LET r == CallOrDefault(st, client, tool_name, args, default, lines)
    IN  [r.st EXCEPT !.parts =
            Append(@, IF r.outcome.kind = "return"
                      THEN prefix \o Dumps(r.outcome.value)
                      ELSE <<69, 114, 114, 111, 114, 58, 32>> \o r.outcome.message)]

\* The word after the marker, which the loop hands to int().
IdOperandAnywhere(words, i) ==
    IF \E j \in (i + 1)..Len(words) : IsInt(words[j])
    THEN words[CHOOSE j \in (i + 1)..Len(words) :
                  IsInt(words[j]) /\ \A k \in (i + 1)..(j - 1) : ~IsInt(words[k])]
    ELSE words[i + 1]
IdOperand(words, i) == words[i + 1]

RECURSIVE ProductLoop(_, _, _, _, _)
\* for i, word in enumerate(words): the loop of the product branch, from
\* word i on.  The bare except swallows both int()'s ValueError and
\* whatever call_tool raises, and the loop goes on with the next word.
ProductLoop(words, i, st, client, lines) ==
    IF i > Len(words) THEN st
    ELSE IF words[i] = <<105, 100>> /\ i < Len(words) /\ IsInt(IdOperand(words, i))
    THEN LET product_id == IntValue(IdOperand(words, i))
             r == CallOrDefault(st, client, "get_product", ProductIdArgs(product_id),
                                NoClientResult, lines)
         IN  IF r.outcome.kind = "return"
             THEN [r.st EXCEPT !.parts =
                      Append(@, <<80, 114, 111, 100, 117, 99, 116, 32>> \o IntToText(product_id) \o <<58, 32>>
                                \o Dumps(r.outcome.value))]
             ELSE ProductLoop(words, i + 1, r.st, client, lines)
    ELSE ProductLoop(words, i + 1, st, client, lines)

\* The body of the try block: the branch of the rule, run from the
\* initial state st0.
Dispatch(rule, query_lower, client, st0, lines) ==
    CASE rule = "list_all" ->
            OneCall(st0, client, "list_products", NoArgs, NoClientListing,
                    <<80, 114, 111, 100, 117, 99, 116, 115, 58, 32>>, lines)
      [] rule = "category" ->
            OneCall(st0, client, "list_products", CategoryArgs(DefaultCategory),
                    NoClientListing,
                    <<80, 114, 111, 100, 117, 99, 116, 115, 32, 105, 110, 32>> \o DefaultCategory \o <<58, 32>>, lines)
      [] rule = "statistics" ->
            OneCall(st0, client, "get_statistics", NoArgs, NoClientResult,
                    <<83, 116, 97, 116, 105, 115, 116, 105, 99, 115, 58, 32>>, lines)
      [] rule = "product" ->
            ProductLoop(Split(query_lower), 1, st0, client, lines)
      [] rule = "add" -> [st0 EXCEPT !.parts = <<AddPrompt>>]
      [] rule = "discount" ->
            [st0 EXCEPT !.parts =
                <<<<67, 97, 108, 99, 117, 108, 97, 116, 105, 111, 110, 58, 32>> \o calculator(DiscountExpression).value>>]
      [] OTHER -> [st0 EXCEPT !.parts = <<DefaultPrompt>>]

\* return " ".join(response_parts), with what the call did to the client.
Respond(rule, st) ==
    [request_id |-> st.request_id, frames |-> st.frames, nread |-> st.nread,
     rule |-> rule, response |-> Join(<<32>>, st.parts)]

RouteLower(rule, query_lower, client, request_id_before, lines) ==
    Respond(rule, Dispatch(rule, query_lower, client, Start(request_id_before), lines))

\* process_user_query(query, mcp_client) on a client whose counter stands
\* at request_id_before and whose stdout will yield `lines`.
process_user_query(q, client, request_id_before, lines) ==
    RouteLower(Rule(Lower(q)), Lower(q), client, request_id_before, lines)

-----------------------------------------------------------------------------
(* mcp_server.py: the product catalog.  A product is the dict of the JSON  *)
(* file; products_data is the module's list, PRODUCTS_FILE the file.       *)

\* A float, in hundredths: the quotient sum(prices) / len(prices).
JFloat(h) == [t |-> "float", h |-> h]

Product(id, name, price, category, in_stock) ==
    JDict(<<Item(<<105, 100>>, JInt(id)),
            Item(<<110, 97, 109, 101>>, JStr(name)),
            Item(<<112, 114, 105, 99, 101>>, JInt(price)),
            Item(<<99, 97, 116, 101, 103, 111, 114, 121>>, JStr(category)),
            Item(<<105, 110, 95, 115, 116, 111, 99, 107>>, JBool(in_stock))>>)

\* d.get(key, default)
Get(d, key, default) == IF HasKey(d, key) THEN GetKey(d, key) ELSE default

\* PRODUCTS_FILE: missing, or holding a JSON array.
NoFile == [exists |-> FALSE]
File(products) == [exists |-> TRUE, products |-> products]

\* load_products(): the list products_data names after it, which is also
\* the list it returns.
load_products(data, file) ==
    IF Len(data) = 0 /\ file.exists THEN file.products ELSE data

RECURSIVE MaxOf(_, _), MinOf(_, _), SumOf(_, _)
\* max(), min() and sum() of a non-empty list of ints, from position i on
MaxOf(xs, i) ==
    IF i = Len(xs) THEN xs[i]
    ELSE LET rest == MaxOf(xs, i + 1) IN IF xs[i] >= rest THEN xs[i] ELSE rest
MinOf(xs, i) ==
    IF i = Len(xs) THEN xs[i]
    ELSE LET rest == MinOf(xs, i + 1) IN IF xs[i] <= rest THEN xs[i] ELSE rest
SumOf(xs, i) == IF i > Len(xs) THEN 0 ELSE xs[i] + SumOf(xs, i + 1)

\* get_next_product_id(), on the list products_data names
get_next_product_id(data) ==
    IF Len(data) = 0 THEN 1
    ELSE MaxOf([i \in 1..Len(data) |-> GetKey(data[i], <<105, 100>>).n], 1) + 1

\* What a tool leaves behind: products_data, the file and its outcome.
Served(data, file, result) == [products_data |-> data, file |-> file, outcome |-> result]

\* list_products(category): category is None (JNull) or a str.
list_products(data, file, category) ==
    LET products == load_products(data, file)
        filtered ==
            SelectSeq(products,
                      LAMBDA p : Lower(Get(p, <<99, 97, 116, 101, 103, 111, 114, 121>>, JStr(<<>>)).s) = Lower(category.s))
    IN  IF category.t = "str" /\ Len(category.s) > 0
        THEN Served(products, file,
                    Return(JDict(<<Item(<<112, 114, 111, 100, 117, 99, 116, 115>>, JList(filtered)),
                                   Item(<<116, 111, 116, 97, 108>>, JInt(Len(filtered))),
                                   Item(<<99, 97, 116, 101, 103, 111, 114, 121>>, category)>>)))
        ELSE Served(products, file,
                    Return(JDict(<<Item(<<112, 114, 111, 100, 117, 99, 116, 115>>, JList(products)),
                                   Item(<<116, 111, 116, 97, 108>>, JInt(Len(products)))>>)))

\* get_product(product_id)
get_product(data, file, product_id) ==
    LET products == load_products(data, file)
        found == {i \in 1..Len(products) : GetKey(products[i], <<105, 100>>).n = product_id}
    IN  IF found # {}
        THEN Served(products, file,
                    Return(JDict(<<Item(<<115, 117, 99, 99, 101, 115, 115>>, JBool(TRUE)),
                                   Item(<<112, 114, 111, 100, 117, 99, 116>>,
                                        products[CHOOSE i \in found : \A j \in found : i <= j])>>)))
        ELSE Served(products, file,
                    Raise(<<80, 114, 111, 100, 117, 99, 116, 32, 119, 105, 116, 104, 32, 73, 68, 32>> \o IntToText(product_id) \o <<32, 110, 111, 116, 32, 102, 111, 117, 110, 100>>))

\* add_product(name, price, category, in_stock).  load_products() returns
\* the list products_data itself, so `products` and `products_data` name
\* one list object and every statement below acts on that one list.
add_product(data, file, name, price, category, in_stock) ==
    LET loaded == load_products(data, file)
        new_product == Product(get_next_product_id(loaded), name, price, category, in_stock)
        \* products.append(new_product): the list grows by the new product
        appended == Append(loaded, new_product)
        \* products_data.clear(): the same list, emptied
        cleared == SubSeq(appended, 1, 0)
        \* products_data.extend(products): the emptied list, extended by itself
        extended == cleared \o cleared
        \* save_products() dumps products_data
    IN  Served(extended, File(extended),
               Return(JDict(<<Item(<<115, 117, 99, 99, 101, 115, 115>>, JBool(TRUE)),
                              Item(<<112, 114, 111, 100, 117, 99, 116>>, new_product)>>)))

\* The orders in which list(set(...)) can yield the members of a set of
\* strings: the iteration order of a set of str changes with the hash seed.
Orders(members) ==
    {order \in [1..Cardinality(members) -> members] :
        \A i, j \in 1..Cardinality(members) : i # j => order[i] # order[j]}

\* get_statistics(), with the order `categories` in which the set of
\* category names is listed.
get_statistics(data, file, categories) ==
    LET products == load_products(data, file)
        prices == [i \in 1..Len(products) |-> GetKey(products[i], <<112, 114, 105, 99, 101>>).n]
        in_stock_count ==
            Cardinality({i \in 1..Len(products) :
                            Get(products[i], <<105, 110, 95, 115, 116, 111, 99, 107>>, JBool(FALSE)).b})
    IN  IF Len(products) = 0
        THEN Served(products, file,
                    Return(JDict(<<Item(<<116, 111, 116, 97, 108, 95, 112, 114, 111, 100, 117, 99, 116, 115>>, JInt(0)),
                                   Item(<<97, 118, 101, 114, 97, 103, 101, 95, 112, 114, 105, 99, 101>>, JInt(0)),
                                   Item(<<105, 110, 95, 115, 116, 111, 99, 107, 95, 99, 111, 117, 110, 116>>, JInt(0)),
                                   Item(<<99, 97, 116, 101, 103, 111, 114, 105, 101, 115>>, JList(<<>>)),
                                   Item(<<112, 114, 105, 99, 101, 95, 114, 97, 110, 103, 101>>,
                                        JDict(<<Item(<<109, 105, 110>>, JInt(0)),
                                                Item(<<109, 97, 120>>, JInt(0))>>))>>)))
        ELSE Served(products, file,
                    Return(JDict(<<Item(<<116, 111, 116, 97, 108, 95, 112, 114, 111, 100, 117, 99, 116, 115>>, JInt(Len(products))),
                                   Item(<<97, 118, 101, 114, 97, 103, 101, 95, 112, 114, 105, 99, 101>>,
                                        JFloat((100 * SumOf(prices, 1)) \div Len(prices))),
                                   Item(<<105, 110, 95, 115, 116, 111, 99, 107, 95, 99, 111, 117, 110, 116>>, JInt(in_stock_count)),
                                   Item(<<111, 117, 116, 95, 111, 102, 95, 115, 116, 111, 99, 107, 95, 99, 111, 117, 110, 116>>,
                                        JInt(Len(products) - in_stock_count)),
                                   Item(<<99, 97, 116, 101, 103, 111, 114, 105, 101, 115>>,
                                        JList([i \in 1..Len(categories) |-> JStr(categories[i])])),
                                   Item(<<112, 114, 105, 99, 101, 95, 114, 97, 110, 103, 101>>,
                                        JDict(<<Item(<<109, 105, 110>>, JInt(MinOf(prices, 1))),
                                                Item(<<109, 97, 120>>, JInt(MaxOf(prices, 1)))>>))>>)))

\* The category names get_statistics collects into its set.
CategoryNames(products) ==
    {Get(products[i], <<99, 97, 116, 101, 103, 111, 114, 121>>, JStr(<<85, 110, 107, 110, 111, 119, 110>>)).s : i \in 1..Len(products)}

-----------------------------------------------------------------------------
(* Inputs                                                                  *)

\* The calls a direct caller of call_tool makes.
ToolCalls ==
    {<<"list_products", NoArgs>>,
     <<"list_products", CategoryArgs(DefaultCategory)>>,
     <<"get_statistics", NoArgs>>,
     <<"get_product", ProductIdArgs(1)>>}

\* The words generated queries are made of: one or two keywords of each
\* rule, in the letter case a user would type, an id marker, integers and
\* a word no rule knows.
Vocabulary ==
    {<<115, 104, 111, 119>>, <<112, 114, 111, 100, 117, 99, 116, 115>>, <<99, 97, 116, 101, 103, 111, 114, 121>>, <<115, 116, 97, 116, 105, 115, 116, 105, 99, 115>>, <<73, 68>>,
     <<55>>, <<48>>, <<97, 100, 100>>, <<1053, 1086, 1074, 1099, 1081>>, <<49, 53, 37>>}

\* The example queries of app/main.py and tests/test_agent.py, and the two
\* end-to-end queries of the specification.
ExampleCategoryQuery == <<1055, 1086, 1082, 1072, 1078, 1080, 32, 1074, 1089, 1077, 32, 1087, 1088, 1086, 1076, 1091, 1082, 1090, 1099, 32, 1074, 32, 1082, 1072, 1090, 1077, 1075, 1086, 1088, 1080, 1080, 32, 1069, 1083, 1077, 1082, 1090, 1088, 1086, 1085, 1080, 1082, 1072>>
ExampleQueries ==
    {<<1055, 1086, 1082, 1072, 1078, 1080, 32, 1074, 1089, 1077, 32, 1087, 1088, 1086, 1076, 1091, 1082, 1090, 1099>>,
     ExampleCategoryQuery,
     <<1050, 1072, 1082, 1072, 1103, 32, 1089, 1088, 1077, 1076, 1085, 1103, 1103, 32, 1094, 1077, 1085, 1072, 32, 1087, 1088, 1086, 1076, 1091, 1082, 1090, 1086, 1074, 63>>,
     <<1053, 1072, 1081, 1076, 1080, 32, 1090, 1086, 1074, 1072, 1088, 32, 1089, 32, 73, 68, 32, 49>>,
     <<1055, 1086, 1089, 1095, 1080, 1090, 1072, 1081, 32, 1089, 1082, 1080, 1076, 1082, 1091, 32, 49, 53, 37, 32, 1085, 1072, 32, 1090, 1086, 1074, 1072, 1088, 32, 1089, 32, 73, 68, 32, 49>>,
     <<1055, 1088, 1080, 1074, 1077, 1090, 44, 32, 1082, 1072, 1082, 32, 1076, 1077, 1083, 1072, 63>>,
     <<102, 105, 110, 100, 32, 112, 114, 111, 100, 117, 99, 116, 32, 105, 100, 32, 49>>,
     <<115, 104, 111, 119, 32, 112, 114, 111, 100, 117, 99, 116, 115>>}

\* The queries explored: the examples, a query that names a product id
\* twice, and every sequence of up to MaxWords words of the vocabulary.
Queries ==
    ExampleQueries
    \cup {<<73, 68, 32, 55, 32, 73, 68, 32, 55>>}
    \cup {Join(<<32>>, ws) : ws \in UNION {[1..n -> Vocabulary] : n \in 0..MaxWords}}

\* The words calculator expressions are made of: integers, operators, a
\* percentage, the separator word of "X% of Y", an unbound name and a call
\* of the builtin exit.
Terms ==
    {<<49, 48, 48>>, <<53, 48>>, <<48>>, <<43>>, <<47>>, <<53, 48, 37>>, <<111, 102>>,
     <<97, 98, 99>>, <<101, 120, 105, 116, 40, 41>>}

Expressions == {Join(<<32>>, ws) : ws \in UNION {[1..n -> Terms] : n \in 0..MaxTerms}}

\* The catalogs the server can find at start: no file, an empty array,
\* one product, and two products of which one is out of stock.
Laptop == Product(1, <<76, 97, 112, 116, 111, 112>>, 100, <<1069, 1083, 1077, 1082, 1090, 1088, 1086, 1085, 1080, 1082, 1072>>, TRUE)
Novel == Product(2, <<78, 111, 118, 101, 108>>, 50, <<66, 111, 111, 107, 115>>, FALSE)
CatalogFiles == {NoFile, File(<<>>), File(<<Laptop>>), File(<<Laptop, Novel>>)}

\* The arguments the tools of the server are called with.
CategoryFilters == {JNull, JStr(<<1101, 1083, 1077, 1082, 1090, 1088, 1086, 1085, 1080, 1082, 1072>>), JStr(<<66, 111, 111, 107, 115>>)}
ProductIds == {1, 2, 3}
NewNames == {<<77, 111, 117, 115, 101>>}
NewPrices == {50, 100}
NewCategories == {<<1069, 1083, 1077, 1082, 1090, 1088, 1086, 1085, 1080, 1082, 1072>>, <<66, 111, 111, 107, 115>>}

\* The logical callers that share one MCPClient, and the call each makes.
Callers == {"lister", "statistician"}
CallOf(t) ==
    IF t = "lister" THEN <<"list_products", NoArgs>> ELSE <<"get_statistics", NoArgs>>

\* The line the provider writes for a frame: the id of the frame and the
\* result of the tool it names, on an empty catalog.
AnswerTo(frame) ==
    ObjectLine(JDict(<<IdItem(frame.id),
                       ResultItem(IF frame.params.name = "list_products"
                                  THEN list_products(<<>>, NoFile, JNull).outcome.value
                                  ELSE get_statistics(<<>>, NoFile, <<>>).outcome.value)>>))

\* An upper bound on the lines one process_user_query can read: one per
\* call it can reach.
ReachableCalls(q, client) ==
    LET rule == Rule(Lower(q))
        words == Split(Lower(q))
    IN  IF ~client THEN 0
        ELSE IF rule \in {"list_all", "category", "statistics"} THEN 1
        ELSE IF rule = "product"
             THEN Cardinality({i \in 1..(Len(words) - 1) : words[i] = <<105, 100>>})
        ELSE 0

RECURSIVE LineSeqs(_, _)
\* The provider's answers to the next n requests, the first of which has
\* the id after `id`.
LineSeqs(id, n) ==
    IF n = 0 THEN {<<>>}
    ELSE {<<l>> \o rest : l \in RouterLines(id + 1), rest \in LineSeqs(id + 1, n - 1)}

-----------------------------------------------------------------------------
(* The client on its own: a caller invoking call_tool again and again.     *)

NoOutcome == [kind |-> "none"]

\* The parts of the state an execution leaves alone when it never runs the
\* calculator, or never uses the client.
CalcIdle == calc_input = <<>> /\ calculated = NoOutcome
ThreadsIdle ==
    /\ pc = [t \in Callers |-> "idle"]
    /\ id_read = [t \in Callers |-> 0]
    /\ request = [t \in Callers |-> [id |-> 0]]
    /\ returned = [t \in Callers |-> NoOutcome]
    /\ call = [t \in Callers |-> 0]
    /\ began = 0
    /\ to_provider = <<>>
    /\ from_provider = <<>>
    /\ hung = FALSE
    /\ closed = FALSE
    /\ overlapped = FALSE
CatalogIdle ==
    /\ products_data = <<>>
    /\ products_file = NoFile
    /\ served = NoOutcome
    /\ added = <<>>
    /\ baseline = 0
ClientIdle ==
    /\ request_id = 0
    /\ stdin = <<>>
    /\ sent = <<>>
    /\ read = <<>>
    /\ query = <<>>
    /\ mcp_client = FALSE
    /\ outcome = NoOutcome
    /\ branch = "none"
    /\ response = <<>>
    /\ last_raise = 0

Init ==
    /\ request_id = 0
    /\ stdin = <<>>
    /\ sent = <<>>
    /\ read = <<>>
    /\ query = <<>>
    /\ mcp_client = TRUE
    /\ op = "init"
    /\ outcome = NoOutcome
    /\ branch = "none"
    /\ response = <<>>
    /\ last_raise = 0
    /\ CalcIdle
    /\ CatalogIdle
    /\ ThreadsIdle

CallTool ==
    /\ request_id < MaxCalls
    /\ \E tc \in ToolCalls, line \in Lines(request_id + 1) :
       \E c \in {call_tool(request_id, tc[1], tc[2], line)} :
              /\ request_id' = c.request_id
              /\ stdin' = Append(stdin, c.frame)
              /\ sent' = <<c.frame>>
              /\ read' = <<line>>
              /\ outcome' = c.outcome
              /\ last_raise' = IF c.outcome.kind = "raise" THEN c.request_id ELSE last_raise
    /\ op' = "call_tool"
    /\ UNCHANGED <<query, mcp_client, branch, response, calcVars, catalogVars, threadVars>>

Next == CallTool

Spec == Init /\ [][Next]_vars

-----------------------------------------------------------------------------
(* The router: process_user_query invoked, again and again, on one query.  *)

RouterInit ==
    /\ request_id = 0
    /\ stdin = <<>>
    /\ sent = <<>>
    /\ read = <<>>
    /\ query \in Queries
    /\ mcp_client \in BOOLEAN
    /\ op = "init"
    /\ outcome = NoOutcome
    /\ branch = "none"
    /\ response = <<>>
    /\ last_raise = 0
    /\ CalcIdle
    /\ CatalogIdle
    /\ ThreadsIdle

ProcessUserQuery ==
    /\ request_id < MaxCalls
    /\ \E lines \in LineSeqs(request_id, ReachableCalls(query, mcp_client)) :
       \E r \in {process_user_query(query, mcp_client, request_id, lines)} :
              /\ request_id' = r.request_id
              /\ stdin' = stdin \o r.frames
              /\ sent' = r.frames
              /\ read' = [i \in 1..r.nread |-> IF i <= Len(lines) THEN lines[i] ELSE EofLine]
              /\ branch' = r.rule
              /\ response' = r.response
              /\ LET raised == {k \in 1..r.nread :
                                   ReadResponse(IF k <= Len(lines) THEN lines[k] ELSE EofLine).kind
                                   = "raise"}
                 IN  last_raise' = IF raised = {} THEN last_raise
                                   ELSE request_id + (CHOOSE k \in raised : \A j \in raised : j <= k)
              /\ calc_input' = IF r.rule = "discount" THEN DiscountExpression ELSE calc_input
              /\ calculated' = IF r.rule = "discount" THEN calculator(DiscountExpression)
                                ELSE calculated
    /\ op' = "process_user_query"
    /\ UNCHANGED <<query, mcp_client, outcome, catalogVars, threadVars>>

RouterNext == ProcessUserQuery

RouterSpec == RouterInit /\ [][RouterNext]_vars


-----------------------------------------------------------------------------
(* The calculator tool, invoked on one expression.                         *)

CalcInit ==
    /\ ClientIdle
    /\ CatalogIdle
    /\ ThreadsIdle
    /\ op = "init"
    /\ calc_input \in Expressions
    /\ calculated = NoOutcome

Calculate ==
    /\ op = "init"
    /\ calculated' = calculator(calc_input)
    /\ op' = "calculator"
    /\ UNCHANGED <<calc_input, clientVars, catalogVars, threadVars>>

CalcNext == Calculate

CalcSpec == CalcInit /\ [][CalcNext]_vars

-----------------------------------------------------------------------------
(* The server: its four tools called, in any order, on one catalog.        *)

\* The catalog as the next tool call will see it.
Catalog == load_products(products_data, products_file)

CatalogInit ==
    /\ ClientIdle
    /\ CalcIdle
    /\ ThreadsIdle
    /\ op = "init"
    /\ products_data = <<>>
    /\ products_file \in CatalogFiles
    /\ served = NoOutcome
    /\ added = <<>>
    /\ baseline = Len(Catalog)

Serve(r) ==
    /\ products_data' = r.products_data
    /\ products_file' = r.file
    /\ served' = r.outcome

ListProducts ==
    /\ \E category \in CategoryFilters :
          Serve(list_products(products_data, products_file, category))
    /\ op' = "list_products"
    /\ UNCHANGED <<added, baseline, clientVars, calcVars, threadVars>>

GetProduct ==
    /\ \E product_id \in ProductIds :
          Serve(get_product(products_data, products_file, product_id))
    /\ op' = "get_product"
    /\ UNCHANGED <<added, baseline, clientVars, calcVars, threadVars>>

AddProduct ==
    /\ Len(added) < MaxAdds
    /\ \E name \in NewNames, price \in NewPrices, category \in NewCategories,
          in_stock \in BOOLEAN :
       \E r \in {add_product(products_data, products_file, name, price, category, in_stock)} :
          /\ Serve(r)
          /\ added' = Append(added, GetKey(r.outcome.value, <<112, 114, 111, 100, 117, 99, 116>>))
    /\ op' = "add_product"
    /\ UNCHANGED <<baseline, clientVars, calcVars, threadVars>>

GetStatistics ==
    /\ \E categories \in Orders(CategoryNames(Catalog)) :
          Serve(get_statistics(products_data, products_file, categories))
    /\ op' = "get_statistics"
    /\ UNCHANGED <<added, baseline, clientVars, calcVars, threadVars>>

CatalogNext == ListProducts \/ GetProduct \/ AddProduct \/ GetStatistics

CatalogSpec == CatalogInit /\ [][CatalogNext]_vars

-----------------------------------------------------------------------------
(* One MCPClient shared by the callers, call_tool taken statement by       *)
(* statement, and the provider at the other end of the pipes.              *)

ThreadInit ==
    /\ op = "init"
    /\ request_id = 0
    /\ stdin = <<>>
    /\ sent = <<>>
    /\ read = <<>>
    /\ query = <<>>
    /\ mcp_client = TRUE
    /\ outcome = NoOutcome
    /\ branch = "none"
    /\ response = <<>>
    /\ last_raise = 0
    /\ CalcIdle
    /\ CatalogIdle
    /\ ThreadsIdle

\* A caller enters call_tool.
Begin(t) ==
    /\ pc[t] = "idle"
    /\ began < MaxCalls
    /\ pc' = [pc EXCEPT ![t] = "load"]
    /\ began' = began + 1
    /\ call' = [call EXCEPT ![t] = began + 1]
    /\ overlapped' = (overlapped \/ \E u \in Callers \ {t} : pc[u] # "idle")
    /\ UNCHANGED <<request_id, stdin, id_read, request, returned, to_provider, from_provider,
                   hung, closed>>

\* self.request_id += 1, the read of the attribute ...
LoadRequestId(t) ==
    /\ pc[t] = "load"
    /\ id_read' = [id_read EXCEPT ![t] = request_id]
    /\ pc' = [pc EXCEPT ![t] = "store"]
    /\ UNCHANGED <<request_id, stdin, request, returned, call, began, to_provider,
                   from_provider, hung, closed, overlapped>>

\* ... and the write of the sum.
StoreRequestId(t) ==
    /\ pc[t] = "store"
    /\ request_id' = NextRequestId(id_read[t])
    /\ pc' = [pc EXCEPT ![t] = "build"]
    /\ UNCHANGED <<stdin, id_read, request, returned, call, began, to_provider,
                   from_provider, hung, closed, overlapped>>

\* request = {..., "id": self.request_id, ...}
BuildRequest(t) ==
    /\ pc[t] = "build"
    /\ request' = [request EXCEPT ![t] = Request(request_id, CallOf(t)[1], CallOf(t)[2])]
    /\ pc' = [pc EXCEPT ![t] = "write"]
    /\ UNCHANGED <<request_id, stdin, id_read, returned, call, began, to_provider,
                   from_provider, hung, closed, overlapped>>

\* self.process.stdin.write(...); self.process.stdin.flush()
WriteRequest(t) ==
    /\ pc[t] = "write"
    /\ stdin' = Append(stdin, request[t])
    /\ to_provider' = Append(to_provider, [frame |-> request[t], call |-> call[t]])
    /\ pc' = [pc EXCEPT ![t] = "read"]
    /\ UNCHANGED <<request_id, id_read, request, returned, call, began, from_provider,
                   hung, closed, overlapped>>

\* Whether readline() can return: it blocks until a line or the end of the
\* stream is there.
LineReadyAlways == TRUE
LineReady == from_provider # <<>> \/ closed

\* response_line = self.process.stdout.readline()...; the rest of
\* call_tool decodes the line and returns or raises.
ReadLine(t) ==
    /\ pc[t] = "read"
    /\ LineReady
    /\ IF from_provider # <<>>
       THEN /\ returned' = [returned EXCEPT ![t] =
                               [outcome |-> ReadResponse(Head(from_provider).line),
                                line |-> Head(from_provider).line,
                                call |-> Head(from_provider).call]]
            /\ from_provider' = Tail(from_provider)
       ELSE /\ returned' = [returned EXCEPT ![t] =
                               [outcome |-> ReadResponse(EofLine), line |-> EofLine,
                                call |-> 0]]
            /\ UNCHANGED from_provider
    /\ pc' = [pc EXCEPT ![t] = "idle"]
    /\ UNCHANGED <<request_id, stdin, id_read, request, call, began, to_provider,
                   hung, closed, overlapped>>

CallerStep(t) ==
    \/ Begin(t)
    \/ LoadRequestId(t)
    \/ StoreRequestId(t)
    \/ BuildRequest(t)
    \/ WriteRequest(t)
    \/ ReadLine(t)

\* The provider answers the oldest frame it has not answered.
Answer ==
    /\ ~hung /\ ~closed
    /\ to_provider # <<>>
    /\ from_provider' = Append(from_provider,
                               [line |-> AnswerTo(Head(to_provider).frame),
                                call |-> Head(to_provider).call])
    /\ to_provider' = Tail(to_provider)
    /\ UNCHANGED <<request_id, stdin, pc, id_read, request, returned, call, began,
                   hung, closed, overlapped>>

\* The provider stops answering while its pipes stay open.
Hang ==
    /\ ~hung /\ ~closed
    /\ hung' = TRUE
    /\ UNCHANGED <<request_id, stdin, pc, id_read, request, returned, call, began,
                   to_provider, from_provider, closed, overlapped>>

\* The provider exits: its stdout reaches end of stream.
Close ==
    /\ ~closed
    /\ closed' = TRUE
    /\ UNCHANGED <<request_id, stdin, pc, id_read, request, returned, call, began,
                   to_provider, from_provider, hung, overlapped>>

\* What no step of a caller or of the provider touches.
Elsewhere ==
    /\ op' = "call_tool"
    /\ UNCHANGED <<sent, read, query, mcp_client, outcome, branch, response, last_raise,
                   calcVars, catalogVars>>

Caller(t) == CallerStep(t) /\ Elsewhere
Provider == (Answer \/ Hang \/ Close) /\ Elsewhere

ThreadNext == (\E t \in Callers : Caller(t)) \/ Provider

ThreadSpec == ThreadInit /\ [][ThreadNext]_vars

\* A caller inside call_tool keeps running, and a provider that has neither
\* hung nor exited answers the frames it was sent.
FairThreadSpec ==
    /\ ThreadSpec
    /\ \A t \in Callers : WF_vars(Caller(t))
    /\ WF_vars(Answer /\ Elsewhere)
-----------------------------------------------------------------------------
(* Properties of call_tool, checked under Spec.                            *)

\* The member `key` of the response object on line l, JNull when the line
\* holds no object or the object has no such member.
HasMember(l, key) == l.kind = "object" /\ HasKey(l.body, key)
Member(l, key) == IF HasMember(l, key) THEN GetKey(l.body, key) ELSE JNull

\* The provider's message in an error member: the member itself when it is
\* a string, its "message" field when it is an object.
ProviderMessage(e) ==
    IF e.t = "str" THEN e.s
    ELSE IF e.t = "dict" /\ HasKey(e, <<109, 101, 115, 115, 97, 103, 101>>) THEN Str(GetKey(e, <<109, 101, 115, 115, 97, 103, 101>>))
    ELSE Str(e)

\* C1: call_tool returns a result only for a response line whose id equals
\* the id of the request it just sent; on a line that carries another id it
\* raises and does not return.
C1_MismatchedIdRaises ==
    (/\ op = "call_tool"
     /\ HasMember(read[1], <<105, 100>>)
     /\ Member(read[1], <<105, 100>>) # JInt(sent[1].id))
        => outcome.kind = "raise"

\* C2: the k-th call_tool of a client sends request id k, whatever the
\* outcomes of the calls before it: ids start at 1, grow by one per call and
\* are never used twice, also after a call that raised.
C2_KthCallSendsIdK ==
    /\ request_id = Len(stdin)
    /\ \A k \in 1..Len(stdin) : stdin[k].id = k
    /\ \A j, k \in 1..Len(stdin) : j # k => stdin[j].id # stdin[k].id
    /\ last_raise <= request_id

\* C2 witness: the call with id 1 raised and the next call was sent with id 2.
C2_SecondCallAfterRaise ==
    /\ op = "call_tool"
    /\ last_raise = 1
    /\ Len(stdin) = 2
    /\ stdin[2].id = 2

\* C3 as stated: when the response line carries an error member, call_tool
\* raises an error whose message is exactly the provider's message.
C3_ErrorMessageVerbatim ==
    (op = "call_tool" /\ HasMember(read[1], <<101, 114, 114, 111, 114>>))
        => (/\ outcome.kind = "raise"
            /\ outcome.message = ProviderMessage(Member(read[1], <<101, 114, 114, 111, 114>>)))

\* C3 as amended: when the response line carries an error member and no
\* result member, call_tool raises an exception whose message is
\* "MCP Error: " followed by the text of the error member, which for a string
\* member is the provider's message itself; a line that carries both members
\* returns the result.
C3_ErrorMessagePrefixed ==
    (op = "call_tool" /\ HasMember(read[1], <<101, 114, 114, 111, 114>>))
        => LET e == Member(read[1], <<101, 114, 114, 111, 114>>)
               prefix == <<77, 67, 80, 32, 69, 114, 114, 111, 114, 58, 32>>
           IN  IF HasMember(read[1], <<114, 101, 115, 117, 108, 116>>)
               THEN outcome = Return(Member(read[1], <<114, 101, 115, 117, 108, 116>>))
               ELSE /\ outcome.kind = "raise"
                    /\ StartsWith(outcome.message, prefix)
                    /\ SubSeq(outcome.message, Len(prefix) + 1, Len(outcome.message))
                          = (IF e.t = "str" THEN e.s ELSE Repr(e))

\* C3 witness: a call read an error line with a string member and raised
\* the prefixed message.
C3_RaisedPrefixedMessage ==
    /\ op = "call_tool"
    /\ HasMember(read[1], <<101, 114, 114, 111, 114>>)
    /\ ~HasMember(read[1], <<114, 101, 115, 117, 108, 116>>)
    /\ Member(read[1], <<101, 114, 114, 111, 114>>) = JStr(NotFoundMessage)
    /\ outcome = Raise(<<77, 67, 80, 32, 69, 114, 114, 111, 114, 58, 32, 80, 114, 111, 100, 117, 99, 116, 32, 119, 105, 116, 104, 32, 73, 68, 32, 49, 32, 110, 111, 116, 32, 102, 111, 117, 110, 100>>)

\* C4: when the response stream yields an empty or missing line, call_tool
\* raises ProtocolError("no response"); it does not return.
C4_EmptyLineRaisesNoResponse ==
    (op = "call_tool" /\ read[1].kind \in {"eof", "blank"})
        => (outcome.kind = "raise" /\ outcome.message = <<110, 111, 32, 114, 101, 115, 112, 111, 110, 115, 101>>)

-----------------------------------------------------------------------------
(* Properties of process_user_query, checked under RouterSpec.             *)

Ran == op = "process_user_query"
QueryLower == Lower(query)
QueryWords == Split(QueryLower)

\* No list-all, category or statistics keyword in the query.
NoListingRule ==
    /\ ~ListAllMatches(QueryLower)
    /\ ~CategoryMatches(QueryLower)
    /\ ~StatisticsMatches(QueryLower)

\* The positions of an "id" token directly followed by an integer token,
\* and of an "id" token with an integer token anywhere after it.
AdjacentMarkers ==
    {i \in 1..(Len(QueryWords) - 1) : QueryWords[i] = <<105, 100>> /\ IsInt(QueryWords[i + 1])}
LooseMarkers ==
    {i \in 1..(Len(QueryWords) - 1) :
        QueryWords[i] = <<105, 100>> /\ \E j \in (i + 1)..Len(QueryWords) : IsInt(QueryWords[j])}

\* The id of the first request the last operation sent.
FirstId == request_id - Len(sent) + 1

\* C5: for a get-by-id query answered by the provider with a failure, the
\* text returned to the user contains the provider's failure message.
C5_FailureMessageReachesUser ==
    (/\ Ran
     /\ branch = "product"
     /\ Len(read) >= 1
     /\ HasMember(read[Len(read)], <<101, 114, 114, 111, 114>>)
     /\ ~HasMember(read[Len(read)], <<114, 101, 115, 117, 108, 116>>))
        => Contains(response, ProviderMessage(Member(read[Len(read)], <<101, 114, 114, 111, 114>>)))

\* C6: process_user_query returns a non-empty response for every query.
C6_ResponseNeverEmpty == Ran => Len(response) > 0

C8_CategoryQueriesFiltered ==
    (Ran /\ CategoryMatches(QueryLower))
        => (/\ branch = "category"
            /\ mcp_client =>
                  sent = <<Request(request_id, "list_products", CategoryArgs(DefaultCategory))>>
            /\ (~mcp_client \/ (Len(read) = 1 /\ ReadResponse(read[1]).kind = "return"))
                  => StartsWith(response, <<80, 114, 111, 100, 117, 99, 116, 115, 32, 105, 110, 32, 1069, 1083, 1077, 1082, 1090, 1088, 1086, 1085, 1080, 1082, 1072, 58>>))

\* C9 as stated: with no listing rule in the way, an "id" token followed
\* anywhere later by an integer token makes the router issue exactly one
\* call, get_product with that integer.
C9_IntegerAnywhereAfterMarker ==
    (Ran /\ mcp_client /\ NoListingRule /\ LooseMarkers # {})
        => (/\ Len(sent) = 1
            /\ sent[1].params.name = "get_product"
            /\ \E i \in LooseMarkers : \E j \in (i + 1)..Len(QueryWords) :
                  /\ IsInt(QueryWords[j])
                  /\ sent[1].params.arguments = ProductIdArgs(IntValue(QueryWords[j])))

\* C9 as amended: with no listing rule in the way and a client, the first
\* request is get_product with the integer that directly follows the first
\* "id" token that has one, and it is the only request when that call
\* returns; when no "id" token is directly followed by an integer token no
\* request is sent, even if an integer comes later.
C9_IntegerRightAfterMarker ==
    (Ran /\ mcp_client /\ NoListingRule)
        => IF AdjacentMarkers = {}
           THEN sent = <<>>
           ELSE LET first == CHOOSE i \in AdjacentMarkers : \A j \in AdjacentMarkers : i <= j
                IN  /\ Len(sent) >= 1
                    /\ sent[1] = Request(FirstId, "get_product",
                                         ProductIdArgs(IntValue(QueryWords[first + 1])))
                    /\ ReadResponse(read[1]).kind = "return" => Len(sent) = 1

\* C9 witness: an "id" token directly followed by 0 produced the single
\* call get_product with product_id 0.
C9_CallWithIdZero ==
    /\ Ran
    /\ mcp_client
    /\ NoListingRule
    /\ AdjacentMarkers # {}
    /\ sent = <<Request(request_id, "get_product", ProductIdArgs(0))>>

\* C10: a query with an add phrase and no list-all, category or statistics
\* phrase makes no tool call and gets the fixed clarification message
\* (stated for the queries that hold no "id" token).
C10_AddQueriesGetPrompt ==
    (/\ Ran
     /\ NoListingRule
     /\ AddMatches(QueryLower)
     /\ \A i \in 1..Len(QueryWords) : QueryWords[i] # <<105, 100>>)
        => (sent = <<>> /\ response = AddPrompt)


\* The words of the query that are an integer followed by a percent sign.
PercentWords ==
    {i \in 1..Len(QueryWords) :
        /\ Len(QueryWords[i]) >= 2
        /\ QueryWords[i][Len(QueryWords[i])] = 37
        /\ IsIntBody(SubSeq(QueryWords[i], 1, Len(QueryWords[i]) - 1))}

\* "X% of Y": X the integer of the first percent word, Y the last word.
OperandsExpression ==
    LET first == CHOOSE i \in PercentWords : \A j \in PercentWords : i <= j
    IN  QueryWords[first] \o <<32, 111, 102, 32>> \o QueryWords[Len(QueryWords)]

\* C11: for a query that takes the calculate/discount rule, contains "X%"
\* and ends in a numeric token Y, calculator is invoked with "X% of Y", the
\* expression built from the query's own operands, and the response is the
\* rendering of that calculation.
C11_CalculationFromQueryOperands ==
    (/\ Ran
     /\ branch = "discount"
     /\ PercentWords # {}
     /\ IsInt(QueryWords[Len(QueryWords)]))
        => (/\ calc_input = OperandsExpression
            /\ response = <<67, 97, 108, 99, 117, 108, 97, 116, 105, 111, 110, 58, 32>> \o calculator(OperandsExpression).value)

\* C17: no request is ever re-sent: whatever the query and however the
\* call ends, one process_user_query makes the provider receive at most
\* one request frame, and reads at most one response line per frame.
C17_AtMostOneRequestPerQuery ==
    Ran => (Len(sent) <= 1 /\ Len(read) <= Len(sent))
-----------------------------------------------------------------------------
(* Properties of calculator, checked under CalcSpec.                       *)

\* Whether the expression takes the "X% of Y" path, and whether its
\* parsing or evaluation fails on the path it takes.
PercentPath(text) == Contains(text, <<37>>) /\ Len(SplitOn(text, <<32, 111, 102, 32>>)) = 2
Fails(text) ==
    IF PercentPath(text)
    THEN \/ ~IsInt(Strip(DropPercent(Strip(SplitOn(text, <<32, 111, 102, 32>>)[1]))))
         \/ ~IsInt(Strip(SplitOn(text, <<32, 111, 102, 32>>)[2]))
    ELSE Eval(text).k # "number"

\* C13: calculator always returns text and never raises: no exception
\* reaches the caller, and for every expression whose parsing or evaluation
\* fails the returned text begins with "Error".
C13_CalculatorAlwaysReturnsText ==
    op = "calculator"
        => (/\ calculated.kind = "return"
            /\ Fails(calc_input) => StartsWith(calculated.value, <<69, 114, 114, 111, 114>>))

-----------------------------------------------------------------------------
(* Properties of the catalog, checked under CatalogSpec.                   *)

\* The id of a product, and whether get_product finds a product.
IdOf(product) == GetKey(product, <<105, 100>>).n
Finds(product) ==
    LET r == get_product(products_data, products_file, IdOf(product)).outcome
    IN  r.kind = "return" /\ GetKey(r.value, <<112, 114, 111, 100, 117, 99, 116>>) = product

\* The total list_products() reports.
ListedTotal ==
    GetKey(list_products(products_data, products_file, JNull).outcome.value, <<116, 111, 116, 97, 108>>).n

\* C12: after any sequence of add_product calls every product added so far
\* is still in the catalog: the total of list_products has grown by one
\* per add, get_product finds each returned id, and the ids handed out
\* differ from one another.
C12_AddedProductsStay ==
    /\ ListedTotal = baseline + Len(added)
    /\ \A i \in 1..Len(added) : Finds(added[i])
    /\ \A i, j \in 1..Len(added) : i # j => IdOf(added[i]) # IdOf(added[j])

\* The members of the record get_statistics is to return.
StatisticsMembers ==
    {<<116, 111, 116, 97, 108, 95, 112, 114, 111, 100, 117, 99, 116, 115>>, <<97, 118, 101, 114, 97, 103, 101, 95, 112, 114, 105, 99, 101>>, <<105, 110, 95, 115, 116, 111, 99, 107, 95, 99, 111, 117, 110, 116>>,
     <<111, 117, 116, 95, 111, 102, 95, 115, 116, 111, 99, 107, 95, 99, 111, 117, 110, 116>>, <<99, 97, 116, 101, 103, 111, 114, 105, 101, 115>>, <<112, 114, 105, 99, 101, 95, 114, 97, 110, 103, 101>>}

Statistic(name) == GetKey(served.value, name)

\* C15: in every catalog state, the empty catalog included, get_statistics
\* returns a record that holds total_products, average_price,
\* in_stock_count, out_of_stock_count, categories and price_range, with
\* in_stock_count + out_of_stock_count = total_products; on the empty
\* catalog the counts are 0 and categories is empty.
C15_StatisticsComplete ==
    op = "get_statistics"
        => (/\ served.kind = "return"
            /\ \A name \in StatisticsMembers : HasKey(served.value, name)
            /\ Statistic(<<105, 110, 95, 115, 116, 111, 99, 107, 95, 99, 111, 117, 110, 116>>).n + Statistic(<<111, 117, 116, 95, 111, 102, 95, 115, 116, 111, 99, 107, 95, 99, 111, 117, 110, 116>>).n
                  = Statistic(<<116, 111, 116, 97, 108, 95, 112, 114, 111, 100, 117, 99, 116, 115>>).n
            /\ Len(Catalog) = 0
                  => (/\ Statistic(<<116, 111, 116, 97, 108, 95, 112, 114, 111, 100, 117, 99, 116, 115>>).n = 0
                      /\ Statistic(<<105, 110, 95, 115, 116, 111, 99, 107, 95, 99, 111, 117, 110, 116>>).n = 0
                      /\ Statistic(<<111, 117, 116, 95, 111, 102, 95, 115, 116, 111, 99, 107, 95, 99, 111, 117, 110, 116>>).n = 0
                      /\ Statistic(<<99, 97, 116, 101, 103, 111, 114, 105, 101, 115>>).xs = <<>>))

-----------------------------------------------------------------------------
(* Properties of one MCPClient shared by several callers, checked under    *)
(* ThreadSpec and FairThreadSpec.                                          *)

\* A caller whose latest call_tool has ended.
Finished(t) == pc[t] = "idle" /\ call[t] > 0

\* The value call_tool returns for the answer to the call of caller t.
OwnResult(t) == ReadResponse(AnswerTo(Request(call[t], CallOf(t)[1], CallOf(t)[2])))

\* C14: when the provider never writes a response line after a request,
\* call_tool still terminates: a caller that waits in readline() on a
\* provider that has stopped answering gets out of call_tool.
C14_WaitingCallTerminates ==
    \A t \in Callers :
        (pc[t] = "read" /\ hung /\ from_provider = <<>> /\ ~overlapped) ~> (pc[t] = "idle")

\* C16: while the calls on one MCPClient have been strictly one at a time
\* and the provider answers in order, the k-th call sends id k, and a call
\* that read a line read the answer to its own request and returns its
\* result.
C16_SerializedCallsCorrelate ==
    ~overlapped
        => \A t \in Callers :
              Finished(t)
                  => (/\ request[t].id = call[t]
                      /\ returned[t].call \in {0, call[t]}
                      /\ returned[t].call = call[t]
                            => (/\ Member(returned[t].line, <<105, 100>>).n = request[t].id
                                /\ returned[t].outcome = OwnResult(t)))

\* C16 witness: two callers used the client without serialization and one
\* of them returned the result of the other's request.
C16_ReturnedOthersResponse ==
    /\ overlapped
    /\ \E t \in Callers : \E u \in Callers \ {t} :
          /\ Finished(t)
          /\ call[u] > 0
          /\ returned[t].call = call[u]
          /\ returned[t].outcome = OwnResult(u)
          /\ returned[t].outcome # OwnResult(t)
====
